---------------------------- MODULE Spec2Model ----------------------------
(***************************************************************************)
(* Model of the jsend crate (src/src/lib.rs): the JSendResponse<T> enum,   *)
(* its three constructors, its three accessors, and the serde codec that   *)
(* the derive attributes on the enum generate                             *)
(*   #[serde(tag = "status", rename_all = "lowercase")]                    *)
(*   #[serde(skip_serializing_if = "Option::is_none")] on Error.code/data  *)
(* as used through serde_json (to_string / from_str) in tests/serde.rs.    *)
(***************************************************************************)
EXTENDS Integers, FiniteSets

VARIABLES T, call, response, wire, origin, deserialized, got

vars == <<T, call, response, wire, origin, deserialized, got>>

(***************************************************************************)
(* Bounds.                                                                 *)
(***************************************************************************)
\* error codes and JSON integers range over 0..MaxCode
MaxCode == 1

Codes == 0..MaxCode

\* The strings that occur as messages, string payloads and status values.
Strings == {"success", "fail", "error", "Success", "unknown"}

(***************************************************************************)
(* Rust values.                                                            *)
(***************************************************************************)
\* Option<X>
None == [some |-> FALSE]

Some(v) == [some |-> TRUE, val |-> v]

Option(S) == {None} \cup {Some(v) : v \in S}

\* Result<X, serde_json::Error>
Ok(v) == [ok |-> TRUE, val |-> v]

Err(why) == [ok |-> FALSE, err |-> why]

(***************************************************************************)
(* JSON values (the serde_json data model), and JSON objects as functions  *)
(* from the keys they carry to JSON values.                                *)
(***************************************************************************)
JNull == [k |-> "null", s |-> "", n |-> 0]

JStr(str) == [k |-> "string", s |-> str, n |-> 0]

JNum(i) == [k |-> "integer", s |-> "", n |-> i]

\* a number that is not an integer, e.g. 1.5
JFloat == [k |-> "float", s |-> "", n |-> 0]

JsonValues == {JNull, JFloat} \cup {JStr(s) : s \in Strings} \cup {JNum(i) : i \in Codes}

EmptyObject == [key \in {} |-> JNull]

Has(obj, key) == key \in DOMAIN obj

\* obj with `key` set to v
Put(obj, key, v) == [x \in (DOMAIN obj) \cup {key} |-> IF x = key THEN v ELSE obj[x]]

\* obj without `key`
Without(obj, key) == [x \in (DOMAIN obj) \ {key} |-> obj[x]]

(***************************************************************************)
(* The payload type T.  Three instantiations the repository itself uses:   *)
(* serde_json::Value (tests/serde.rs), Option<String> and String (the unit *)
(* tests of lib.rs).  A Rust String payload is written [string |-> s].     *)
(***************************************************************************)
PayloadTypes == {"Value", "Option<String>", "String"}

RustString(s) == [string |-> s]

Payloads(ty) ==
    CASE ty = "Value" -> JsonValues
      [] ty = "Option<String>" -> Option({RustString(s) : s \in Strings})
      [] ty = "String" -> {RustString(s) : s \in Strings}

\* <T as Serialize>::serialize
SerializeT(ty, v) ==
    CASE ty = "Value" -> v
      [] ty = "Option<String>" -> IF v.some THEN JStr(v.val.string) ELSE JNull
      [] ty = "String" -> JStr(v.string)

\* <T as Deserialize>::deserialize on a JSON value
DeserializeT(ty, j) ==
    CASE ty = "Value" -> Ok(j)
      [] ty = "Option<String>" ->
            IF j.k = "null" THEN Ok(None)
            ELSE IF j.k = "string" THEN Ok(Some(RustString(j.s)))
            ELSE Err("invalid type")
      [] ty = "String" ->
            IF j.k = "string" THEN Ok(RustString(j.s)) ELSE Err("invalid type")

\* serde's missing_field: a field of type X whose key is absent is
\* deserialized from a deserializer that only answers deserialize_option
\* (with None); every other request is the error "missing field".
MissingT(ty) ==
    CASE ty = "Value" -> Err("missing field")
      [] ty = "Option<String>" -> Ok(None)
      [] ty = "String" -> Err("missing field")


(***************************************************************************)
(* enum JSendResponse<T> and its constructors.                             *)
(***************************************************************************)
Success(data) == [tag |-> "Success", data |-> data]

Fail(data) == [tag |-> "Fail", data |-> data]

Error(message, code, data) ==
    [tag |-> "Error", message |-> message, code |-> code, data |-> data]

\* pub fn success(data: Option<T>)
success(data) == Success(data)

\* pub fn fail(data: T)
fail(data) == Fail(data)

\* pub fn error(message: String, code: Option<i64>, data: Option<T>)
error(message, code, data) == Error(message, code, data)

(***************************************************************************)
(* The accessors.  Option<&X> is modelled by the Option of the value.      *)
(***************************************************************************)
\* (mutant) the Fail arm flattened like the other two: nothing for Fail
data_FailAbsent(self) ==
    CASE self.tag = "Success" -> self.data
      [] self.tag = "Fail" -> None
      [] self.tag = "Error" -> self.data

\* pub fn data(&self) -> Option<&T>
data(self) ==
    CASE self.tag = "Success" -> self.data
      [] self.tag = "Fail" -> Some(self.data)
      [] self.tag = "Error" -> self.data

\* (mutant) the catch-all arm answers an empty message
message_EmptyForOthers(self) ==
    CASE self.tag = "Error" -> Some(self.message)
      [] OTHER -> Some("")

\* pub fn message(&self) -> Option<&String>
message(self) ==
    CASE self.tag = "Error" -> Some(self.message)
      [] OTHER -> None

\* pub fn code(&self) -> Option<&i64>
code(self) ==
    CASE self.tag = "Error" -> self.code
      [] OTHER -> None

(***************************************************************************)
(* derive(Serialize) with tag = "status", rename_all = "lowercase".        *)
(***************************************************************************)
\* (mutant) rename_all left out: the identifiers as written
VariantName_NoRename(tag) == tag

\* rename_all = "lowercase" applied to the variant identifiers
VariantName(tag) ==
    CASE tag = "Success" -> "success"
      [] tag = "Fail" -> "fail"
      [] tag = "Error" -> "error"

\* <Option<T> as Serialize>::serialize: None is the JSON null
SerializeOption(ty, opt) == IF opt.some THEN SerializeT(ty, opt.val) ELSE JNull

\* (mutant) skip_serializing_if left out: the key is always written
SkipIfNone_Never(obj, key, opt, j) == Put(obj, key, j)

\* a field carrying skip_serializing_if = "Option::is_none"
SkipIfNone(obj, key, opt, j) == IF opt.some THEN Put(obj, key, j) ELSE obj

\* the tag entry every variant starts with
SerializeTag(self) == Put(EmptyObject, "status", JStr(VariantName(self.tag)))

\* (mutant) skip_serializing_if put on Success.data as well
SerializeSuccess_SkipNone(ty, self) ==
    IF self.data.some
    THEN Put(Put(EmptyObject, "status", JStr("success")), "data", SerializeT(ty, self.data.val))
    ELSE Put(EmptyObject, "status", JStr("success"))

SerializeSuccess(ty, self) ==
    Put(SerializeTag(self), "data", SerializeOption(ty, self.data))

SerializeFail(ty, self) ==
    Put(SerializeTag(self), "data", SerializeT(ty, self.data))

SerializeError(ty, self) ==
    LET withMessage == Put(SerializeTag(self), "message", JStr(self.message))
        withCode == SkipIfNone(withMessage, "code", self.code,
                               IF self.code.some THEN JNum(self.code.val) ELSE JNull)
    IN  SkipIfNone(withCode, "data", self.data, SerializeOption(ty, self.data))

\* serde_json::to_string(&response), as the JSON object it writes
Serialize(ty, self) ==
    CASE self.tag = "Success" -> SerializeSuccess(ty, self)
      [] self.tag = "Fail" -> SerializeFail(ty, self)
      [] self.tag = "Error" -> SerializeError(ty, self)

(***************************************************************************)
(* derive(Deserialize) with tag = "status", rename_all = "lowercase".      *)
(***************************************************************************)
\* <Option<X> as Deserialize>: null is None, anything else is Some(X)
DeserializeOption(ty, j) ==
    IF j.k = "null" THEN Ok(None)
    ELSE LET r == DeserializeT(ty, j)
         IN  IF r.ok THEN Ok(Some(r.val)) ELSE r

\* a field of type T: `data` of Fail
FieldT(ty, obj, key) ==
    IF Has(obj, key) THEN DeserializeT(ty, obj[key]) ELSE MissingT(ty)

\* (mutant) a missing key of an Option<T> field is an error
FieldOptionT_Required(ty, obj, key) ==
    IF Has(obj, key) THEN DeserializeOption(ty, obj[key]) ELSE Err("missing field")

\* a field of type Option<T>: `data` of Success and of Error.  A missing
\* key is None (missing_field on an Option).
FieldOptionT(ty, obj, key) ==
    IF Has(obj, key) THEN DeserializeOption(ty, obj[key]) ELSE Ok(None)

\* a field of type String: `message` of Error
FieldString(obj, key) ==
    IF ~Has(obj, key) THEN Err("missing field")
    ELSE IF obj[key].k = "string" THEN Ok(obj[key].s)
    ELSE Err("invalid type")

\* a field of type Option<i64>: `code` of Error
FieldOptionI64(obj, key) ==
    IF ~Has(obj, key) THEN Ok(None)
    ELSE IF obj[key].k = "null" THEN Ok(None)
    ELSE IF obj[key].k = "integer" THEN Ok(Some(obj[key].n))
    ELSE Err("invalid type")

\* (mutant) a fallback variant, as with #[serde(other)] or a default tag
ResolveVariant_DefaultSuccess(obj) ==
    IF ~Has(obj, "status") THEN Ok("Success")
    ELSE IF obj["status"].k # "string" THEN Ok("Success")
    ELSE IF obj["status"].s = "fail" THEN Ok("Fail")
    ELSE IF obj["status"].s = "error" THEN Ok("Error")
    ELSE Ok("Success")

\* the tag: the value of the `status` key must be one of the renamed
\* variant identifiers
ResolveVariant(obj) ==
    IF ~Has(obj, "status") THEN Err("missing field")
    ELSE IF obj["status"].k # "string" THEN Err("invalid type")
    ELSE IF obj["status"].s = "success" THEN Ok("Success")
    ELSE IF obj["status"].s = "fail" THEN Ok("Fail")
    ELSE IF obj["status"].s = "error" THEN Ok("Error")
    ELSE Err("unknown variant")

\* keys the variant does not declare are ignored (no deny_unknown_fields)
DeserializeSuccess(ty, obj) ==
    LET d == FieldOptionT(ty, obj, "data")
    IN  IF d.ok THEN Ok(Success(d.val)) ELSE d

DeserializeFail(ty, obj) ==
    LET d == FieldT(ty, obj, "data")
    IN  IF d.ok THEN Ok(Fail(d.val)) ELSE d

DeserializeError(ty, obj) ==
    LET m == FieldString(obj, "message")
        c == FieldOptionI64(obj, "code")
        d == FieldOptionT(ty, obj, "data")
    IN  IF ~m.ok THEN m
        ELSE IF ~c.ok THEN c
        ELSE IF ~d.ok THEN d
        ELSE Ok(Error(m.val, c.val, d.val))

\* (mutant) the variant chosen by the keys present, as with #[serde(untagged)]
Deserialize_Untagged(ty, obj) ==
    LET v == ResolveVariant(obj)
    IN  IF ~v.ok THEN v
        ELSE IF Has(obj, "message") THEN DeserializeError(ty, obj)
        ELSE IF Has(obj, "data") /\ DeserializeFail(ty, obj).ok THEN DeserializeFail(ty, obj)
        ELSE DeserializeSuccess(ty, obj)

\* serde_json::from_str::<JSendResponse<T>> on a JSON object
Deserialize(ty, obj) ==
    LET v == ResolveVariant(obj)
    IN  IF ~v.ok THEN v
        ELSE CASE v.val = "Success" -> DeserializeSuccess(ty, obj)
               [] v.val = "Fail" -> DeserializeFail(ty, obj)
               [] v.val = "Error" -> DeserializeError(ty, obj)

(***************************************************************************)
(* The state machine: a caller that builds an envelope, reads it through   *)
(* the accessors, serializes it, or receives a JSON object from elsewhere, *)
(* and deserializes the object at hand.                                    *)
(*   T            the payload type of this usage site                      *)
(*   call         the last constructor call and its arguments              *)
(*   response     the envelope the caller holds                            *)
(*   wire         the JSON object at hand; origin says where it is from    *)
(*   deserialized the result of from_str on wire                           *)
(*   got          the last accessor call and what it returned              *)
(***************************************************************************)
NoCall == [fn |-> "none"]

NoResponse == [tag |-> "none"]

NoResult == [ok |-> FALSE, err |-> "not run"]

\* every JSON object over the four keys of the format plus a foreign one
Keys == {"status", "data", "message", "code"}

ForeignKey == "meta"

WireObjects ==
    UNION {[K -> JsonValues] : K \in SUBSET Keys}
    \cup UNION {{Put(o, ForeignKey, JNull) : o \in [K -> JsonValues]} : K \in SUBSET Keys}

Init ==
    /\ T \in PayloadTypes
    /\ call = NoCall
    /\ response = NoResponse
    /\ wire = EmptyObject
    /\ origin = "none"
    /\ deserialized = NoResult
    /\ got = NoCall

\* the caller holds neither an envelope nor a JSON object
Idle == response = NoResponse /\ origin = "none"

Built(c, r) ==
    /\ call' = c
    /\ response' = r
    /\ wire' = EmptyObject
    /\ origin' = "none"
    /\ deserialized' = NoResult
    /\ got' = NoCall
    /\ UNCHANGED T

CallSuccess ==
    /\ Idle
    /\ \E d \in Option(Payloads(T)) :
        Built([fn |-> "success", data |-> d], success(d))

CallFail ==
    /\ Idle
    /\ \E d \in Payloads(T) :
        Built([fn |-> "fail", data |-> d], fail(d))

CallError ==
    /\ Idle
    /\ \E m \in Strings, c \in Option(Codes), d \in Option(Payloads(T)) :
        Built([fn |-> "error", message |-> m, code |-> c, data |-> d], error(m, c, d))

CallData ==
    /\ response # NoResponse
    /\ got' = [fn |-> "data", val |-> data(response)]
    /\ UNCHANGED <<T, call, response, wire, origin, deserialized>>

CallMessage ==
    /\ response # NoResponse
    /\ got' = [fn |-> "message", val |-> message(response)]
    /\ UNCHANGED <<T, call, response, wire, origin, deserialized>>

CallCode ==
    /\ response # NoResponse
    /\ got' = [fn |-> "code", val |-> code(response)]
    /\ UNCHANGED <<T, call, response, wire, origin, deserialized>>

\* to_string(&response)
ToString ==
    /\ response # NoResponse
    /\ wire' = Serialize(T, response)
    /\ origin' = "to_string"
    /\ deserialized' = NoResult
    /\ UNCHANGED <<T, call, response, got>>

\* a JSON object written by some other party arrives
Receive ==
    /\ Idle
    /\ \E o \in WireObjects :
        /\ wire' = o
        /\ origin' = "received"
        /\ call' = NoCall
        /\ response' = NoResponse
        /\ deserialized' = NoResult
        /\ got' = NoCall
        /\ UNCHANGED T

\* from_str(&wire)
FromStr ==
    /\ origin # "none"
    /\ deserialized' = Deserialize(T, wire)
    /\ UNCHANGED <<T, call, response, wire, origin, got>>

\* the envelope and the JSON object go out of scope
Drop ==
    /\ ~Idle
    /\ call' = NoCall
    /\ response' = NoResponse
    /\ wire' = EmptyObject
    /\ origin' = "none"
    /\ deserialized' = NoResult
    /\ got' = NoCall
    /\ UNCHANGED T

Next ==
    \/ CallSuccess
    \/ CallFail
    \/ CallError
    \/ CallData
    \/ CallMessage
    \/ CallCode
    \/ ToString
    \/ Receive
    \/ FromStr
    \/ Drop

Spec == Init /\ [][Next]_vars

\* the variables hold values of the shapes above
TypeOK ==
    /\ T \in PayloadTypes
    /\ origin \in {"none", "to_string", "received"}
    /\ response.tag \in {"none", "Success", "Fail", "Error"}
    /\ got.fn \in {"none", "data", "message", "code"}
    /\ call.fn \in {"none", "success", "fail", "error"}

(***************************************************************************)
(* Properties.                                                             *)
(***************************************************************************)
Ran == deserialized # NoResult

StatusIs(lit) == Has(wire, "status") /\ wire["status"] = JStr(lit)

\* C1: round trip.  Whenever an envelope built by a constructor has been
\* serialized and the result deserialized, deserialization succeeded and
\* returned an envelope equal to the one serialized.
C1_RoundTrip ==
    (origin = "to_string" /\ Ran) => deserialized = Ok(response)

\* C2: a JSON object without a `status` key, or whose `status` is not one of
\* the strings "success", "fail", "error", is rejected with an error,
\* whatever its other keys.
C2_StatusRejected ==
    (Ran /\ ~StatusIs("success") /\ ~StatusIs("fail") /\ ~StatusIs("error"))
        => /\ ~deserialized.ok
           /\ deserialized.err \in {"missing field", "invalid type", "unknown variant"}

C2_Witness ==
    /\ origin = "received"
    /\ StatusIs("Success")
    /\ Has(wire, "data") /\ Has(wire, "message")
    /\ deserialized = Err("unknown variant")

\* C3: for every payload type, a `fail` object without a `data` key and an
\* `error` object without a `message` key are rejected.
C3_RequiredFieldRejected ==
    (Ran /\ (\/ StatusIs("fail") /\ ~Has(wire, "data")
             \/ StatusIs("error") /\ ~Has(wire, "message")))
        => ~deserialized.ok

\* C4: data() returns the payload given to success and error (absent when
\* none was given) and always Some(d) for fail(d); it is absent only for a
\* Success or Error built without a payload.
C4_DataAccessor ==
    got.fn = "data" =>
        /\ got.val \in Option(Payloads(T))
        /\ call.fn = "success" => got.val = call.data
        /\ call.fn = "fail" => got.val = Some(call.data)
        /\ call.fn = "error" => got.val = call.data
        /\ got.val = None => (call.fn \in {"success", "error"} /\ call.data = None)

C4_Witness ==
    /\ T = "Option<String>"
    /\ call.fn = "fail"
    /\ call.data = None
    /\ got = [fn |-> "data", val |-> Some(None)]

\* C5: message() and code() are absent for every Success and Fail; for
\* error(m, c, d), message() is Some(m) and code() is c.
C5_FieldIsolation ==
    /\ got.fn = "message" =>
          /\ got.val \in Option(Strings)
          /\ got.val = IF call.fn = "error" THEN Some(call.message) ELSE None
    /\ got.fn = "code" =>
          /\ got.val \in Option(Codes)
          /\ got.val = IF call.fn = "error" THEN call.code ELSE None

C5_Witness ==
    /\ call.fn = "error"
    /\ call.code = None
    /\ got = [fn |-> "code", val |-> None]

\* C6: a serialized envelope has a `status` key holding "success", "fail" or
\* "error" according to its variant, and no key outside status, data,
\* message, code.
C6_StatusTag ==
    origin = "to_string" =>
        /\ DOMAIN wire \subseteq Keys
        /\ response.tag = "Success" => StatusIs("success")
        /\ response.tag = "Fail" => StatusIs("fail")
        /\ response.tag = "Error" => StatusIs("error")

C6_Witness ==
    /\ origin = "to_string"
    /\ response.tag = "Error"
    /\ response.message = "success"
    /\ StatusIs("error")

\* C7: a serialized Success or Fail always has a `data` key, null for
\* success(None) and the serialized payload otherwise, and never a `message`
\* or `code` key.
C7_SuccessFailData ==
    (origin = "to_string" /\ call.fn \in {"success", "fail"}) =>
        /\ Has(wire, "data")
        /\ ~Has(wire, "message")
        /\ ~Has(wire, "code")
        /\ (call.fn = "success" /\ call.data = None) => wire["data"] = JNull
        /\ (call.fn = "success" /\ call.data # None) =>
              wire["data"] = SerializeT(T, call.data.val)
        /\ call.fn = "fail" => wire["data"] = SerializeT(T, call.data)

C7_Witness ==
    /\ origin = "to_string"
    /\ call.fn = "success"
    /\ call.data = None
    /\ Has(wire, "data")
    /\ wire["data"] = JNull

\* C8: a serialized error(m, c, d) has `message` = m, a `code` key exactly
\* when c is present (then the number, never null), and a `data` key exactly
\* when d is present.
C8_ErrorFields ==
    (origin = "to_string" /\ call.fn = "error") =>
        /\ Has(wire, "message")
        /\ wire["message"] = JStr(call.message)
        /\ Has(wire, "code") <=> call.code # None
        /\ Has(wire, "code") => wire["code"] = JNum(call.code.val)
        /\ Has(wire, "data") <=> call.data # None
        /\ Has(wire, "data") => wire["data"] = SerializeT(T, call.data.val)
        /\ (call.code = None /\ call.data = None) => DOMAIN wire = {"status", "message"}

C8_Witness ==
    /\ origin = "to_string"
    /\ call.fn = "error"
    /\ call.code = None
    /\ call.data = None
    /\ DOMAIN wire = {"status", "message"}

\* C9: the variant of a successfully deserialized envelope is the one the
\* `status` value names, whatever other keys the object has; the same object
\* under another status never deserializes to an equal envelope.
C9_VariantByStatus ==
    (Ran /\ deserialized.ok) =>
        /\ deserialized.val.tag = "Success" <=> StatusIs("success")
        /\ deserialized.val.tag = "Fail" <=> StatusIs("fail")
        /\ deserialized.val.tag = "Error" <=> StatusIs("error")
        /\ \A lit \in {"success", "fail", "error"} :
              ~StatusIs(lit) => Deserialize(T, Put(wire, "status", JStr(lit))) # deserialized

C9_Witness ==
    /\ origin = "received"
    /\ StatusIs("fail")
    /\ Has(wire, "data") /\ Has(wire, "message") /\ Has(wire, "code")
    /\ deserialized.ok
    /\ deserialized.val.tag = "Fail"
    /\ Deserialize(T, Put(wire, "status", JStr("success"))).ok

\* C10: absent optional fields are decoded leniently.  A `success` object
\* without a `data` key gives success(None); an `error` object whose `code`
\* or `data` is null gives what the same object without that key gives, with
\* the field absent.
C10_LenientOptional ==
    Ran =>
        /\ (StatusIs("success") /\ ~Has(wire, "data")) => deserialized = Ok(success(None))
        /\ (StatusIs("error") /\ Has(wire, "code") /\ wire["code"] = JNull) =>
              /\ deserialized = Deserialize(T, Without(wire, "code"))
              /\ deserialized.ok => deserialized.val.code = None
        /\ (StatusIs("error") /\ Has(wire, "data") /\ wire["data"] = JNull) =>
              /\ deserialized = Deserialize(T, Without(wire, "data"))
              /\ deserialized.ok => deserialized.val.data = None

C10_Witness ==
    /\ origin = "received"
    /\ StatusIs("error")
    /\ Has(wire, "code") /\ wire["code"] = JNull
    /\ Has(wire, "data") /\ wire["data"] = JNull
    /\ deserialized.ok
    /\ deserialized = Ok(error(deserialized.val.message, None, None))
    /\ Serialize(T, deserialized.val) # wire

=============================================================================
